---- MODULE Spec2Model ----
(***************************************************************************)
(* gcommit: the commit-message pipeline of GCommit.run, in its two         *)
(* revisions: the plain-text orchestrator (gcommit.py) and the themed one  *)
(* (gcommit_app.py with git_helper.py and ollama_client.py).               *)
(*                                                                         *)
(* Text is a sequence of atoms.  An atom is either a whitespace character  *)
(* (" " or "\n") or a run of non-whitespace characters that the program    *)
(* only ever compares as a whole ("y", "reject", "a", ...).  Python's None *)
(* is the one-atom text <<"None">>, an atom no input contains.             *)
(***************************************************************************)
EXTENDS Integers, Sequences, FiniteSets, TLC

\* ------------------------------------------------------------------ bounds
\* How many files the index may hold staged at once.
MaxStaged == 2
\* How many times the confirmation prompt may be shown again.
MaxPrompts == 1

\* ------------------------------------------------------------- str helpers
None == <<"None">>

\* str.strip() with no argument removes whitespace on both sides.
IsSpace(c) == c \in {" ", "\n"}

RECURSIVE LStrip(_)
LStrip(s) ==
    IF s = <<>> THEN s
    ELSE IF IsSpace(Head(s)) THEN LStrip(Tail(s)) ELSE s

RECURSIVE RStrip(_)
RStrip(s) ==
    IF s = <<>> THEN s
    ELSE IF IsSpace(s[Len(s)]) THEN RStrip(SubSeq(s, 1, Len(s) - 1)) ELSE s

Strip(s) == RStrip(LStrip(s))

\* str.lower()
LowerAtom(c) == IF c = "Y" THEN "y" ELSE IF c = "N" THEN "n" ELSE c

Lower(s) == [k \in DOMAIN s |-> LowerAtom(s[k])]

\* str.split('\n'): the pieces between newlines, empty pieces included.
RECURSIVE SplitLines(_, _)
SplitLines(s, cur) ==
    IF s = <<>> THEN <<cur>>
    ELSE IF Head(s) = "\n" THEN <<cur>> \o SplitLines(Tail(s), <<>>)
    ELSE SplitLines(Tail(s), Append(cur, Head(s)))

\* [f.strip() for f in stdout.split('\n') if f.strip()]
RECURSIVE StripNonBlank(_)
StripNonBlank(lines) ==
    IF lines = <<>> THEN <<>>
    ELSE IF Strip(Head(lines)) # <<>>
         THEN <<Strip(Head(lines))>> \o StripNonBlank(Tail(lines))
         ELSE StripNonBlank(Tail(lines))

ParseNameList(stdout) == StripNonBlank(SplitLines(stdout, <<>>))

\* Python truthiness of an Optional[str] / list: None and the empty value are false.
Truthy(x) == x # None /\ x # <<>>

\* -------------------------------------------------------- the environment
\* File names the working tree may hold, in the order git lists them.
RawNames == << <<"a">>, <<"a", " ">>, <<"b">> >>

RECURSIVE NameListing(_, _)
NameListing(S, k) ==
    IF k > Len(RawNames) THEN <<>>
    ELSE (IF k \in S THEN RawNames[k] \o <<"\n">> ELSE <<>>) \o NameListing(S, k + 1)

\* What `git diff --staged --name-only` can print: one line per staged file.
StagedListings ==
    { NameListing(S, 1) : S \in { T \in SUBSET (1 .. Len(RawNames)) : Cardinality(T) <= MaxStaged } }

\* What `git ls-files --others --exclude-standard` can print.
UntrackedListings == { <<>>, <<"u", "\n">> }

\* A subprocess either exits 0 with some stdout or raises CalledProcessError.
Failed == [ok |-> FALSE, stdout |-> <<>>]
Exited(out) == [ok |-> TRUE, stdout |-> out]

\* What `git diff --staged -- <path>` can print.
DiffTexts == { <<>>, <<" ", "\n">>, <<"d", "\n">> }

\* What an HTTP request can come to: a RequestException, or a response with a
\* status code and (for /api/generate) a JSON body whose "response" field is
\* missing, null or a text.
NetError == [exc |-> TRUE, status |-> 0, field |-> "missing", response |-> <<>>]
Status(code) == [exc |-> FALSE, status |-> code, field |-> "missing", response |-> <<>>]
Body(field, text) == [exc |-> FALSE, status |-> 200, field |-> field, response |-> text]

ResponseTexts == { <<>>, <<" ">>, <<"s">>, <<" ", "s", "\n">> }

ProbeOutcomes == { NetError, Status(200), Status(500) }

GenerateOutcomes ==
    { NetError, Status(500), Body("missing", <<>>), Body("null", <<>>) }
    \cup { Body("text", t) : t \in ResponseTexts }

\* Lines the user can type at a prompt.
InputLines ==
    { <<>>, <<" ">>, <<"y">>, <<" ", "Y">>, <<"N", " ">>,
      <<"accept">>, <<" ", "reject">>, <<"edit">>, <<" ", "r", " ">> }

\* ------------------------------------------------------------- git_helper
\* GitHelper.has_untracked_files: (has_untracked, files)
has_untracked_files(run) ==
    IF run.ok
    THEN LET files == ParseNameList(run.stdout)
         IN  [has |-> Len(files) > 0, files |-> files]
    ELSE [has |-> FALSE, files |-> <<>>]

\* GitHelper.get_staged_files
get_staged_files(run) ==
    IF run.ok THEN ParseNameList(run.stdout) ELSE <<>>

get_file_diff_error_text(run) ==
    IF run.ok
    THEN (IF Strip(run.stdout) # <<>> THEN run.stdout ELSE None)
    ELSE <<"error">>

\* GitHelper.get_file_diff
get_file_diff(run) ==
    IF run.ok
    THEN (IF Strip(run.stdout) # <<>> THEN run.stdout ELSE None)
    ELSE None

\* GitHelper.commit_changes
commit_changes(run) == run.ok

\* ---------------------------------------------------------- ollama_client
is_available_any_status(http) == ~ http.exc

\* OllamaClient.is_available
is_available(http) ==
    IF http.exc THEN FALSE ELSE http.status = 200

ReadResponseUnstripped(http) ==
    IF http.exc \/ http.status # 200 THEN [raised |-> FALSE, value |-> None]
    ELSE IF http.field = "null" THEN [raised |-> TRUE, value |-> None]
    ELSE LET text == IF http.field = "missing" THEN <<>> ELSE http.response
         IN  [raised |-> FALSE, value |-> IF text # <<>> THEN text ELSE None]

\* The tail shared by both generation calls: status check, result.get('response',
\* '').strip(), and the `x if x else None` return.  raised: an exception other
\* than requests.RequestException leaves the function (None has no strip()).
ReadResponse(http) ==
    IF http.exc THEN [raised |-> FALSE, value |-> None]
    ELSE IF http.status # 200 THEN [raised |-> FALSE, value |-> None]
    ELSE IF http.field = "null" THEN [raised |-> TRUE, value |-> None]
    ELSE LET text == IF http.field = "missing" THEN <<>> ELSE http.response
             s    == Strip(text)
         IN  [raised |-> FALSE, value |-> IF s # <<>> THEN s ELSE None]

\* OllamaClient.summarize_file_changes; sent: a POST was issued.
summarize_file_changes(filepath, diff, http) ==
    IF Strip(diff) = <<>>
    THEN [sent |-> FALSE, raised |-> FALSE, value |-> None]
    ELSE LET r == ReadResponse(http)
         IN  [sent |-> TRUE, raised |-> r.raised, value |-> r.value]

\* OllamaClient.generate_commit_message
generate_commit_message(file_summaries, http) ==
    IF file_summaries = <<>>
    THEN [sent |-> FALSE, raised |-> FALSE, value |-> None]
    ELSE LET r == ReadResponse(http)
         IN  [sent |-> TRUE, raised |-> r.raised, value |-> r.value]

\* ------------------------------------------------------- the orchestrator
VARIABLES
    variant,          \* "plain": gcommit.py, "rich": gcommit_app.py
    pc,               \* position of GCommit.run
    untracked,        \* what has_untracked_files() returned
    staged_files,
    i,                \* position of the for loop in staged_files
    diff,
    file_summaries,
    commit_message,
    choice,
    final_message,
    exit_code,        \* what run() returned; -1 while it has not returned
    prompts,          \* how many times the confirmation prompt was shown again
    line,             \* the line the user typed last
    ops               \* the subprocesses run and HTTP requests sent, in order

vars == << variant, pc, untracked, staged_files, i, diff, file_summaries,
           commit_message, choice, final_message, exit_code, prompts, line, ops >>

Variants == { "plain", "rich" }

Op(name, idx, arg, raw, res) ==
    [op |-> name, idx |-> idx, arg |-> arg, raw |-> raw, res |-> res]

Init ==
    /\ variant \in Variants
    /\ pc = "RepoCheck"
    /\ untracked = [has |-> FALSE, files |-> <<>>]
    /\ staged_files = <<>>
    /\ i = 0
    /\ diff = None
    /\ file_summaries = <<>>
    /\ commit_message = None
    /\ choice = None
    /\ final_message = None
    /\ exit_code = -1
    /\ prompts = 0
    /\ line = None
    /\ ops = <<>>

\* `return code` in run()
Return(code) ==
    /\ pc' = "done"
    /\ exit_code' = code

\* subprocess.run(['git', 'rev-parse', '--git-dir'], check=True)
RepoCheck ==
    /\ pc = "RepoCheck"
    /\ \E run \in { Failed, Exited(<<".git", "\n">>) } :
         /\ ops' = Append(ops, Op("rev-parse", 0, <<>>, run, <<>>))
         /\ IF run.ok
            THEN pc' = "UntrackedWarn" /\ UNCHANGED exit_code
            ELSE Return(1)
    /\ UNCHANGED << variant, untracked, staged_files, i, diff, file_summaries,
                    commit_message, choice, final_message, prompts, line >>

\* self.check_untracked_files(): the warning is printed, nothing is returned
UntrackedWarn ==
    /\ pc = "UntrackedWarn"
    /\ \E run \in { Failed } \cup { Exited(o) : o \in UntrackedListings } :
         /\ untracked' = has_untracked_files(run)
         /\ ops' = Append(ops, Op("ls-files", 0, <<>>, run, untracked'.files))
    /\ pc' = "StageEnumerate"
    /\ UNCHANGED << variant, staged_files, i, diff, file_summaries,
                    commit_message, choice, final_message, exit_code, prompts, line >>

NextEntrySame(k) == k

\* the for loop moves on to the next entry of staged_files
NextEntry(k) == k + 1

NoStagedFilesNever(files) == FALSE

\* `if not staged_files:`
NoStagedFiles(files) == files = <<>>

StageEnumerate ==
    /\ pc = "StageEnumerate"
    /\ \E run \in { Failed } \cup { Exited(o) : o \in StagedListings } :
         /\ staged_files' = get_staged_files(run)
         /\ ops' = Append(ops, Op("staged", 0, <<>>, run, staged_files'))
    /\ IF NoStagedFiles(staged_files')
       THEN Return(0)
       ELSE pc' = "AvailabilityProbe" /\ UNCHANGED exit_code
    /\ UNCHANGED << variant, untracked, i, diff, file_summaries,
                    commit_message, choice, final_message, prompts, line >>

\* `if not self.ollama.is_available():` and the start of the for loop
AvailabilityProbe ==
    /\ pc = "AvailabilityProbe"
    /\ \E http \in ProbeOutcomes :
         /\ ops' = Append(ops, Op("probe", 0, <<>>, http, <<>>))
         /\ IF ~ is_available(http)
            THEN Return(1) /\ UNCHANGED << file_summaries, i >>
            ELSE /\ pc' = "PerFileSummarize"
                 /\ file_summaries' = <<>>
                 /\ i' = 1
                 /\ UNCHANGED exit_code
    /\ UNCHANGED << variant, untracked, staged_files, diff,
                    commit_message, choice, final_message, prompts, line >>

\* One turn of the for loop up to the call of summarize_file_changes:
\* `diff = self.git.get_file_diff(filepath)` and `if diff:`
FetchDiff ==
    /\ pc = "PerFileSummarize"
    /\ i <= Len(staged_files)
    /\ \E run \in { Failed } \cup { Exited(o) : o \in DiffTexts } :
         /\ diff' = get_file_diff(run)
         /\ ops' = Append(ops, Op("diff", i, staged_files[i], run, diff'))
    /\ IF Truthy(diff')
       THEN pc' = "Summarize" /\ UNCHANGED i
       ELSE pc' = "PerFileSummarize" /\ i' = NextEntry(i)
    /\ UNCHANGED << variant, untracked, staged_files, file_summaries,
                    commit_message, choice, final_message, exit_code, prompts, line >>

AddSummaryInFront(summaries, filepath, summary) ==
    << <<filepath, summary>> >> \o summaries

\* file_summaries.append((filepath, summary))
AddSummary(summaries, filepath, summary) ==
    Append(summaries, <<filepath, summary>>)

\* The rest of the turn: `summary = self.ollama.summarize_file_changes(...)`,
\* `if summary:` and the append.
Summarize ==
    /\ pc = "Summarize"
    /\ \E http \in GenerateOutcomes :
         LET r == summarize_file_changes(staged_files[i], diff, http) IN
         /\ ops' = IF r.sent
                   THEN Append(ops, Op("summarize", i, <<staged_files[i], diff>>, http, r.value))
                   ELSE ops
         /\ IF r.raised
            THEN pc' = "raised" /\ UNCHANGED << file_summaries, i >>
            ELSE /\ pc' = "PerFileSummarize"
                 /\ i' = NextEntry(i)
                 /\ file_summaries' =
                      IF Truthy(r.value)
                      THEN AddSummary(file_summaries, staged_files[i], r.value)
                      ELSE file_summaries
    /\ UNCHANGED << variant, untracked, staged_files, diff,
                    commit_message, choice, final_message, exit_code, prompts, line >>

\* After the loop: `if not file_summaries: return 1`
SummariesCheck ==
    /\ pc = "PerFileSummarize"
    /\ i > Len(staged_files)
    /\ IF file_summaries = <<>>
       THEN Return(1)
       ELSE pc' = "AggregateGenerate" /\ UNCHANGED exit_code
    /\ UNCHANGED << variant, untracked, staged_files, i, diff, file_summaries,
                    commit_message, choice, final_message, prompts, line, ops >>

\* `commit_message = self.ollama.generate_commit_message(file_summaries)` and
\* `if not commit_message: return 1`
AggregateGenerate ==
    /\ pc = "AggregateGenerate"
    /\ \E http \in GenerateOutcomes :
         LET r == generate_commit_message(file_summaries, http) IN
         /\ ops' = IF r.sent
                   THEN Append(ops, Op("generate", 0, file_summaries, http, r.value))
                   ELSE ops
         /\ IF r.raised
            THEN pc' = "raised" /\ UNCHANGED << commit_message, exit_code >>
            ELSE /\ commit_message' = r.value
                 /\ IF ~ Truthy(r.value)
                    THEN Return(1)
                    ELSE pc' = "Confirm" /\ UNCHANGED exit_code
    /\ UNCHANGED << variant, untracked, staged_files, i, diff, file_summaries,
                    choice, final_message, prompts, line >>

PlainChoiceUnstripped(typed) == typed

\* `choice = input(...).strip()`
PlainChoice(typed) == Strip(typed)

PlainAnswerNoReject(c) ==
    IF Lower(c) = <<"y">> THEN "accept"
    ELSE IF c # <<>> THEN "edit"
    ELSE "again"

PlainAnswerBlankEdits(c) ==
    IF Lower(c) = <<"y">> THEN "accept"
    ELSE IF Lower(c) = <<"n">> THEN "reject"
    ELSE "edit"

\* The if/elif chain of the while loop of gcommit.py
PlainAnswer(c) ==
    IF Lower(c) = <<"y">> THEN "accept"
    ELSE IF Lower(c) = <<"n">> THEN "reject"
    ELSE IF c # <<>> THEN "edit"
    ELSE "again"

\* The while loop of gcommit.py, one input() per step
ConfirmPlain ==
    /\ variant = "plain"
    /\ pc = "Confirm"
    /\ \E typed \in InputLines :
         LET c == PlainChoice(typed)
             a == PlainAnswer(c)
         IN  /\ line' = typed
             /\ choice' = c
             /\ CASE a = "accept" ->
                       /\ final_message' = commit_message
                       /\ pc' = "Commit"
                       /\ UNCHANGED << exit_code, prompts >>
                  [] a = "reject" ->
                       /\ Return(0)
                       /\ UNCHANGED << final_message, prompts >>
                  [] a = "edit" ->
                       /\ final_message' = c
                       /\ pc' = "Commit"
                       /\ UNCHANGED << exit_code, prompts >>
                  [] OTHER ->
                       /\ prompts < MaxPrompts
                       /\ prompts' = prompts + 1
                       /\ UNCHANGED << pc, final_message, exit_code >>
    /\ UNCHANGED << variant, untracked, staged_files, i, diff, file_summaries,
                    commit_message, ops >>

\* rich's Prompt.ask(..., default=d): an empty line gives the default, any
\* other line is stripped.
PromptAsk(typed, default) ==
    IF typed = <<>> THEN default ELSE Strip(typed)

Choices == { <<"accept">>, <<"reject">>, <<"edit">> }

\* Prompt.ask("What would you like to do?", choices=[...], default="accept"):
\* a line that is none of the choices is asked for again.
ConfirmRich ==
    /\ variant = "rich"
    /\ pc = "Confirm"
    /\ \E typed \in InputLines :
         LET c == PromptAsk(typed, <<"accept">>) IN
         /\ line' = typed
         /\ IF c \notin Choices
            THEN /\ prompts < MaxPrompts
                 /\ prompts' = prompts + 1
                 /\ UNCHANGED << pc, choice, final_message, exit_code >>
            ELSE /\ choice' = c
                 /\ UNCHANGED prompts
                 /\ CASE c = <<"accept">> ->
                           /\ final_message' = commit_message
                           /\ pc' = "Commit"
                           /\ UNCHANGED exit_code
                      [] c = <<"reject">> ->
                           /\ Return(0)
                           /\ UNCHANGED final_message
                      [] c = <<"edit">> ->
                           /\ pc' = "Edit"
                           /\ UNCHANGED << final_message, exit_code >>
    /\ UNCHANGED << variant, untracked, staged_files, i, diff, file_summaries,
                    commit_message, ops >>

\* final_message = Prompt.ask("Enter your commit message", default=commit_message)
EditRich ==
    /\ variant = "rich"
    /\ pc = "Edit"
    /\ \E typed \in InputLines :
         /\ line' = typed
         /\ final_message' = PromptAsk(typed, commit_message)
    /\ pc' = "Commit"
    /\ UNCHANGED << variant, untracked, staged_files, i, diff, file_summaries,
                    commit_message, choice, exit_code, prompts, ops >>

\* `if self.git.commit_changes(final_message): return 0` / `else: return 1`
Commit ==
    /\ pc = "Commit"
    /\ \E run \in { Failed, Exited(<<>>) } :
         /\ ops' = Append(ops, Op("commit", 0, final_message, run, <<>>))
         /\ Return(IF commit_changes(run) THEN 0 ELSE 1)
    /\ UNCHANGED << variant, untracked, staged_files, i, diff, file_summaries,
                    commit_message, choice, final_message, prompts, line >>

Next ==
    \/ RepoCheck
    \/ UntrackedWarn
    \/ StageEnumerate
    \/ AvailabilityProbe
    \/ FetchDiff
    \/ Summarize
    \/ SummariesCheck
    \/ AggregateGenerate
    \/ ConfirmPlain
    \/ ConfirmRich
    \/ EditRich
    \/ Commit

Spec == Init /\ [][Next]_vars

\* ----------------------------------------------------------- reading ops
Terminated == pc \in { "done", "raised" }

OpsOf(name) == { k \in DOMAIN ops : ops[k].op = name }

Done(name) == OpsOf(name) # {}

TypeOK ==
    /\ variant \in Variants
    /\ pc \in { "RepoCheck", "UntrackedWarn", "StageEnumerate", "AvailabilityProbe",
                "PerFileSummarize", "Summarize", "AggregateGenerate", "Confirm",
                "Edit", "Commit", "done", "raised" }
    /\ exit_code \in { -1, 0, 1 }
    /\ prompts \in 0 .. MaxPrompts
    /\ i \in 0 .. Len(staged_files) + 1

\* ---------------------------------------------------------- the claims
Range(f) == { f[k] : k \in DOMAIN f }

PathsOf(summaries) == [k \in DOMAIN summaries |-> summaries[k][1]]

\* t is s without the whitespace at its two ends (stated without Strip).
IsTrimOf(t, s) ==
    \E a \in 0 .. Len(s), b \in 0 .. Len(s) :
        /\ a + b <= Len(s)
        /\ t = SubSeq(s, a + 1, Len(s) - b)
        /\ \A k \in 1 .. a : IsSpace(s[k])
        /\ \A k \in (Len(s) - b + 1) .. Len(s) : IsSpace(s[k])
        /\ t # <<>> => (~ IsSpace(t[1]) /\ ~ IsSpace(t[Len(t)]))

\* The answers at Confirm, read from what the user typed.
Accepted ==
    \/ variant = "plain" /\ choice \in { <<"y">>, <<"Y">> }
    \/ variant = "rich" /\ choice = <<"accept">>

Rejected ==
    \/ variant = "plain" /\ choice \in { <<"n">>, <<"N">> }
    \/ variant = "rich" /\ choice = <<"reject">>

\* C1: a run that reached Confirm with a generated message and got a reject
\* answer has returned 0 and has never invoked commit.
C1_RejectNeverCommits ==
    Rejected =>
        /\ Truthy(commit_message)
        /\ pc = "done"
        /\ exit_code = 0
        /\ ~ Done("commit")

C1_Witness ==
    /\ Rejected
    /\ variant = "plain"
    /\ line = <<"N", " ">>
    /\ pc = "done"
    /\ Done("generate")

\* The user supplied a replacement message: in gcommit.py a line that, stripped,
\* is neither blank nor y/n; in gcommit_app.py a non-empty line at the edit prompt.
Replaced ==
    \/ /\ variant = "plain"
       /\ choice # None
       /\ Strip(line) \notin { <<>>, <<"y">>, <<"Y">>, <<"n">>, <<"N">> }
    \/ /\ variant = "rich"
       /\ choice = <<"edit">>
       /\ pc \in { "Commit", "done" }
       /\ line # <<>>

\* C2 as stated: after a replacement line R, commit is invoked with exactly R.
C2_EditVerbatim ==
    Replaced => \A k \in OpsOf("commit") : ops[k].arg = line

\* C2 as amended: after a replacement line R the run invokes commit exactly
\* once, with R stripped of the whitespace at its two ends, whatever the
\* generated message was.
C2_EditStripped ==
    Replaced =>
        /\ Cardinality(OpsOf("commit")) <= 1
        /\ pc = "done" => Cardinality(OpsOf("commit")) = 1
        /\ \A k \in OpsOf("commit") : IsTrimOf(ops[k].arg, line)

C2_Witness ==
    /\ Replaced
    /\ variant = "plain"
    /\ line = <<" ", "r", " ">>
    /\ pc = "done"
    /\ \E k \in OpsOf("commit") : ops[k].arg = <<"r">> /\ ops[k].arg # commit_message

\* C3: when get_staged_files returns the empty list (git failing included),
\* the run has returned 0 and the listing was its last operation: no probe,
\* no summarization or generation request, no commit.
C3_NoStagedNoWork ==
    \A k \in OpsOf("staged") :
        /\ ~ ops[k].raw.ok => ops[k].res = <<>>
        /\ ops[k].res = <<>> =>
             /\ pc = "done"
             /\ exit_code = 0
             /\ k = Len(ops)
             /\ ~ Done("probe") /\ ~ Done("summarize")
             /\ ~ Done("generate") /\ ~ Done("commit")

C3_Witness ==
    /\ pc = "done"
    /\ exit_code = 0
    /\ \E k \in OpsOf("staged") : ~ ops[k].raw.ok /\ k = Len(ops)

\* C4: when the probe ends in an exception or a status other than 200, the
\* run has returned 1 and the probe was its last operation: no diff fetch, no
\* summarization, no generation, no commit.
C4_ShortCircuit ==
    \A k \in OpsOf("probe") :
        (ops[k].raw.exc \/ ops[k].raw.status # 200) =>
            /\ pc = "done"
            /\ exit_code = 1
            /\ k = Len(ops)
            /\ ~ Done("diff") /\ ~ Done("summarize")
            /\ ~ Done("generate") /\ ~ Done("commit")

C4_Witness ==
    /\ pc = "done"
    /\ exit_code = 1
    /\ \E k \in OpsOf("probe") : ~ ops[k].raw.exc /\ ops[k].raw.status = 500

\* a is b with some elements left out, the rest in b's order.
RECURSIVE IsSubseq(_, _)
IsSubseq(a, b) ==
    IF a = <<>> THEN TRUE
    ELSE IF b = <<>> THEN FALSE
    ELSE IF Head(a) = Head(b) THEN IsSubseq(Tail(a), Tail(b))
    ELSE IsSubseq(a, Tail(b))

\* The summaries the loop has produced so far, read off the requests sent.
SummarizedPaths ==
    LET made == SelectSeq(ops, LAMBDA o : o.op = "summarize" /\ Truthy(o.res))
    IN  [k \in DOMAIN made |-> made[k].arg[1]]

C5_InOrder ==
    /\ IsSubseq(PathsOf(file_summaries), staged_files)
    /\ PathsOf(file_summaries) = SummarizedPaths
    /\ \A g \in OpsOf("generate") :
         /\ ops[g].arg = file_summaries
         /\ IsSubseq(PathsOf(ops[g].arg), staged_files)

C5_AppendOnly ==
    \/ file_summaries' = file_summaries
    \/ /\ pc = "Summarize"
       /\ \E e \in Range(file_summaries') :
            /\ file_summaries' = Append(file_summaries, e)
            /\ e[1] = staged_files[i]

\* C5: the summary sequence, and the one handed to generate_commit_message,
\* lists its paths in the order of the staged-file listing, and every step of
\* the loop either leaves it alone or appends the current file at its end.
C5_OrderPreserved == [] C5_InOrder /\ [][C5_AppendOnly]_vars

C5_Witness ==
    /\ Done("generate")
    /\ staged_files = << <<"a">>, <<"b">> >>
    /\ PathsOf(file_summaries) = << <<"a">>, <<"b">> >>

\* The diff fetch at ops[k] came back failed, empty or all whitespace.
BlankDiff(k) ==
    \/ ~ ops[k].raw.ok
    \/ \A c \in Range(ops[k].raw.stdout) : IsSpace(c)

\* C6: a staged entry whose diff fetch fails or prints nothing but whitespace
\* gets no summarization request, and a path all of whose fetches were such is
\* in neither the summary sequence nor the one passed to generation.
C6_BlankDiffDropped ==
    /\ \A k \in OpsOf("diff") :
         BlankDiff(k) =>
            /\ ops[k].res = None
            /\ \A m \in OpsOf("summarize") : ops[m].idx # ops[k].idx
    /\ \A m \in OpsOf("summarize") :
         /\ m > 1
         /\ ops[m - 1].op = "diff"
         /\ ops[m - 1].idx = ops[m].idx
         /\ ~ BlankDiff(m - 1)
    /\ \A p \in Range(staged_files) :
         LET fetched == { k \in OpsOf("diff") : ops[k].arg = p }
         IN  (fetched # {} /\ \A k \in fetched : BlankDiff(k)) =>
                /\ p \notin Range(PathsOf(file_summaries))
                /\ \A m \in OpsOf("summarize") : ops[m].arg[1] # p
                /\ \A g \in OpsOf("generate") : p \notin Range(PathsOf(ops[g].arg))

C6_Witness ==
    /\ Done("generate")
    /\ staged_files = << <<"a">>, <<"b">> >>
    /\ PathsOf(file_summaries) = << <<"b">> >>
    /\ \E k \in OpsOf("diff") :
         ops[k].arg = <<"a">> /\ ops[k].raw.ok /\ ops[k].raw.stdout = <<" ", "\n">>

\* What the operations of the run came to.
NotInRepo == \E k \in OpsOf("rev-parse") : ~ ops[k].raw.ok

NoStaged == \E k \in OpsOf("staged") : ops[k].res = <<>>

ProbeOk == \E k \in OpsOf("probe") : ~ ops[k].raw.exc /\ ops[k].raw.status = 200

Unavailable == \E k \in OpsOf("probe") : ops[k].raw.exc \/ ops[k].raw.status # 200

AllFetched == \A j \in 1 .. Len(staged_files) : \E k \in OpsOf("diff") : ops[k].idx = j

ZeroSummaries == ProbeOk /\ AllFetched /\ file_summaries = <<>>

GenFailed == \E g \in OpsOf("generate") : ~ Truthy(ops[g].res)

CommitFailed == \E c \in OpsOf("commit") : ~ ops[c].raw.ok

CommitOk == \E c \in OpsOf("commit") : ops[c].raw.ok

\* C7: a summarization that fails or comes back empty drops that file only:
\* the remaining staged files are still fetched, generation is requested
\* exactly when some file got a summary, and with no summary at all the run
\* returns 1 without a generation request or a commit.
C7_FailureOnlyDropsFile ==
    (Terminated /\ ProbeOk) =>
        /\ (\E m \in OpsOf("summarize") : ~ Truthy(ops[m].res)) => AllFetched
        /\ Done("generate") <=> file_summaries # <<>>
        /\ file_summaries = <<>> =>
             (exit_code = 1 /\ ~ Done("generate") /\ ~ Done("commit"))

\* C8: a run that has ended returned 0 or 1; 1 exactly for: not a repository,
\* service unavailable, zero summaries, generation without usable text, commit
\* failure; 0 exactly for: nothing staged, reject at confirmation, commit done.
C8_ExitCodeContract ==
    Terminated =>
        /\ exit_code \in { 0, 1 }
        /\ exit_code = 1 <=>
             (NotInRepo \/ Unavailable \/ ZeroSummaries \/ GenFailed \/ CommitFailed)
        /\ exit_code = 0 <=> (NoStaged \/ Rejected \/ CommitOk)

\* C9 as stated: on accept, commit is invoked exactly once, with the text of
\* the backend's response to the generation request, verbatim.
C9_AcceptVerbatim ==
    (Accepted /\ pc = "done") =>
        /\ Cardinality(OpsOf("commit")) = 1
        /\ \A c \in OpsOf("commit") : \A g \in OpsOf("generate") :
             ops[c].arg = ops[g].raw.response

\* C9 as amended: on accept, commit is invoked exactly once, with the message
\* M shown to the user, which is the text of the backend's response to the
\* generation request without the whitespace at its two ends.
C9_AcceptStripped ==
    Accepted =>
        /\ Cardinality(OpsOf("commit")) <= 1
        /\ pc = "done" => Cardinality(OpsOf("commit")) = 1
        /\ Cardinality(OpsOf("generate")) = 1
        /\ \A c \in OpsOf("commit") : \A g \in OpsOf("generate") :
             /\ ops[c].arg = commit_message
             /\ ops[g].res = commit_message
             /\ ops[g].raw.field = "text"
             /\ IsTrimOf(ops[c].arg, ops[g].raw.response)

C9_Witness ==
    /\ Accepted
    /\ pc = "done"
    /\ \E g \in OpsOf("generate") : ops[g].raw.response = <<" ", "s", "\n">>
    /\ \E c \in OpsOf("commit") : ops[c].arg = <<"s">>

\* The state of section 4.3 an operation belongs to, and the one a position
\* of run() belongs to.
OpRank(name) ==
    CASE name = "rev-parse" -> 1
      [] name = "ls-files" -> 2
      [] name = "staged" -> 3
      [] name = "probe" -> 4
      [] name \in { "diff", "summarize" } -> 5
      [] name = "generate" -> 6
      [] name = "commit" -> 8

PcRank(p) ==
    CASE p = "RepoCheck" -> 1
      [] p = "UntrackedWarn" -> 2
      [] p = "StageEnumerate" -> 3
      [] p = "AvailabilityProbe" -> 4
      [] p \in { "PerFileSummarize", "Summarize" } -> 5
      [] p = "AggregateGenerate" -> 6
      [] p \in { "Confirm", "Edit" } -> 7
      [] p = "Commit" -> 8
      [] p \in { "done", "raised" } -> 9

C10_TraceInOrder ==
    LET rank == [k \in DOMAIN ops |-> OpRank(ops[k].op)]
        last == IF ops = <<>> THEN 0 ELSE rank[Len(ops)]
    IN
    \* the operations are in the order of the states, none skipped
    /\ \A k \in 1 .. (Len(ops) - 1) : rank[k] <= rank[k + 1]
    /\ \A r \in 1 .. 6 : r < last => \E j \in DOMAIN ops : rank[j] = r
    /\ last <= PcRank(pc)
    \* at most once each, the loop's two at most once per entry of the list
    /\ \A j, k \in DOMAIN ops :
         (j < k /\ ops[j].op = ops[k].op) =>
            /\ ops[k].op \in { "diff", "summarize" }
            /\ ops[j].idx < ops[k].idx
    /\ \A k \in DOMAIN ops :
         ops[k].op \in { "diff", "summarize" } => ops[k].idx \in 1 .. Len(staged_files)
    \* commit only after every earlier state succeeded
    /\ last = 8 =>
         /\ ~ NotInRepo /\ Done("ls-files") /\ ~ NoStaged /\ ProbeOk
         /\ AllFetched /\ file_summaries # <<>>
         /\ Done("generate") /\ ~ GenFailed /\ Truthy(commit_message)
         /\ choice # None /\ ~ Rejected /\ final_message # None

C10_StepForward ==
    /\ PcRank(pc') >= PcRank(pc)
    /\ pc = "UntrackedWarn" => pc' = "StageEnumerate"
    /\ Len(ops') >= Len(ops)
    /\ SubSeq(ops', 1, Len(ops)) = ops

\* C10: the run moves through the states of section 4.3 forward only: its
\* operations are a prefix of that order, each single operation happens at most
\* once and the loop's two at most once per staged entry, whatever the
\* untracked listing gave the run goes on to the staged listing, and commit
\* comes only after every earlier state succeeded.
C10_ForwardOnly == [] C10_TraceInOrder /\ [][C10_StepForward]_vars

C10_Witness ==
    /\ pc = "done"
    /\ CommitOk
    /\ untracked.has
    /\ Len(staged_files) = 2
    /\ Cardinality(OpsOf("summarize")) = 2

\* No element of the sequence occurs at two positions.
NoRepeat(seq) == \A j, k \in DOMAIN seq : seq[j] = seq[k] => j = k

\* C11: at every point of the loop and at the call of generate_commit_message
\* the summary sequence holds no path twice, whatever get_staged_files returned.
C11_OnePerPath ==
    /\ NoRepeat(PathsOf(file_summaries))
    /\ \A g \in OpsOf("generate") : NoRepeat(PathsOf(ops[g].arg))

\* ------------------------------------------------ the client on its own
\* The two generation calls of OllamaClient applied to arguments of their
\* declared types: diff in `diff`, the summaries in file_summaries; what the
\* call returned goes to commit_message, the requests it sent to ops.
ClientDiffs == { <<>>, <<" ", "\n">>, <<"d", "\n">>, <<" ", "d">> }

ClientSummaries ==
    { <<>>,
      << << <<"a">>, <<"s">> >> >>,
      << << <<"a">>, <<"s">> >>, << <<"b">>, <<"s">> >> >> }

ClientInit ==
    /\ variant \in Variants
    /\ pc = "client"
    /\ untracked = [has |-> FALSE, files |-> <<>>]
    /\ staged_files = <<>>
    /\ i = 0
    /\ diff \in ClientDiffs
    /\ file_summaries \in ClientSummaries
    /\ commit_message = None
    /\ choice = None
    /\ final_message = None
    /\ exit_code = -1
    /\ prompts = 0
    /\ line = None
    /\ ops = <<>>

\* summarize_file_changes(filepath, diff)
CallSummarize ==
    /\ pc = "client"
    /\ \E http \in GenerateOutcomes :
         LET r == summarize_file_changes(<<"a">>, diff, http) IN
         /\ ops' = IF r.sent
                   THEN <<Op("summarize", 0, << <<"a">>, diff >>, http, r.value)>>
                   ELSE <<>>
         /\ commit_message' = r.value
         /\ pc' = IF r.raised THEN "summarize_raised" ELSE "summarize_returned"
    /\ UNCHANGED << variant, untracked, staged_files, i, diff, file_summaries,
                    choice, final_message, exit_code, prompts, line >>

\* generate_commit_message(file_summaries)
CallGenerate ==
    /\ pc = "client"
    /\ \E http \in GenerateOutcomes :
         LET r == generate_commit_message(file_summaries, http) IN
         /\ ops' = IF r.sent
                   THEN <<Op("generate", 0, file_summaries, http, r.value)>>
                   ELSE <<>>
         /\ commit_message' = r.value
         /\ pc' = IF r.raised THEN "generate_raised" ELSE "generate_returned"
    /\ UNCHANGED << variant, untracked, staged_files, i, diff, file_summaries,
                    choice, final_message, exit_code, prompts, line >>

ClientNext == CallSummarize \/ CallGenerate

ClientSpec == ClientInit /\ [][ClientNext]_vars

\* The value returned is none, or the non-blank text of the one request's
\* response without the whitespace at its two ends.
UsableOrNone ==
    \/ commit_message = None
    \/ /\ commit_message # <<>>
       /\ Len(ops) = 1
       /\ ~ ops[1].raw.exc /\ ops[1].raw.status = 200 /\ ops[1].raw.field = "text"
       /\ IsTrimOf(commit_message, ops[1].raw.response)

\* C12: whatever the backend does, the two calls return the trimmed non-blank
\* response text or none and never raise; a blank diff, and an empty summaries
\* list, give none without any request.
C12_NeverRaises ==
    /\ pc \notin { "summarize_raised", "generate_raised" }
    /\ pc \in { "summarize_returned", "generate_returned" } => UsableOrNone
    /\ (pc = "summarize_returned" /\ \A c \in Range(diff) : IsSpace(c)) =>
         (commit_message = None /\ ops = <<>>)
    /\ (pc = "generate_returned" /\ file_summaries = <<>>) =>
         (commit_message = None /\ ops = <<>>)

\* ------------------------------------------------------------ termination
\* sys.exit(app.run()): the process ends with what run() returned; an
\* exception that leaves run() ends the interpreter with status 1.
ProcessExit == IF pc = "raised" THEN 1 ELSE exit_code

\* How far run() has got: the state, the entry of the loop, the half of the turn.
Measure ==
    100 * PcRank(pc)
    + (IF pc \in { "PerFileSummarize", "Summarize" } THEN 2 * i ELSE 0)
    + (IF pc \in { "Summarize", "Edit" } THEN 1 ELSE 0)

Blank(text) == \A c \in Range(text) : IsSpace(c)

\* The prompt is shown again.
Reprompt == pc = "Confirm" /\ pc' = "Confirm"

\* The answers Confirm takes: gcommit.py any line that is not blank,
\* gcommit_app.py the empty line (the default) or one of the three choices.
AnswerTaken(typed) ==
    \/ variant = "plain" /\ ~ Blank(typed)
    \/ variant = "rich" /\ (typed = <<>> \/ \E c \in Choices : IsTrimOf(c, typed))

\* A run that has ended has an exit status; one that has not can take a step.
C13_Ends ==
    /\ Terminated => ProcessExit \in { 0, 1 }
    /\ ~ Terminated => ENABLED Next

\* A prompt shown again runs no operation and changes neither the generated
\* message nor the summaries; in gcommit.py a blank answer does nothing else.
C13_RepromptOnly ==
    /\ Reprompt =>
         UNCHANGED << ops, commit_message, file_summaries, final_message, exit_code >>
    /\ (pc = "Confirm" /\ variant = "plain" /\ Blank(line')) => Reprompt

C13_StepNonBlank ==
    /\ Reprompt \/ Measure' > Measure
    /\ Reprompt => Blank(line')
    /\ C13_RepromptOnly

C13_Step ==
    /\ Reprompt \/ Measure' > Measure
    /\ Reprompt => ~ AnswerTaken(line')
    /\ C13_RepromptOnly

\* C13 as stated: every step but a blank answer at Confirm takes the run
\* forward, so the run ends with an exit status once the user gives a
\* non-blank answer; a blank answer in gcommit.py only shows the prompt again.
C13_EndsOnNonBlank == [] C13_Ends /\ [][C13_StepNonBlank]_vars

\* C13 as amended: every step but an answer Confirm does not take moves the
\* run forward, so the run ends with an exit status once the user gives an
\* answer Confirm takes (gcommit.py: a non-blank line; gcommit_app.py: the
\* empty line or accept, reject or edit); a blank answer in gcommit.py only
\* shows the prompt again.
C13_EndsOnTakenAnswer == [] C13_Ends /\ [][C13_Step]_vars

C13_Witness ==
    /\ variant = "plain"
    /\ prompts = 1
    /\ pc = "done"
    /\ exit_code = 0
    /\ Done("commit")

\* With every enabled step eventually taken the run ends.
LiveSpec == Spec /\ WF_vars(Next)

C13_Eventually == <> Terminated

====
